---- MODULE Spec2Model ----
(***************************************************************************)
(* The batching scheduler of elit/server/server.py: ModelRunner.           *)
(*                                                                         *)
(* Everything runs on one asyncio event loop, so a coroutine is only       *)
(* interleaved with others where it really suspends:                       *)
(*   - process_input suspends at `await our_task["done_event"].wait()`     *)
(*     (line 66); taking the free queue_lock (line 59) does not suspend;   *)
(*   - model_runner suspends at `await self.needs_processing.wait()`       *)
(*     (line 83) when the event is clear, and at `await                    *)
(*     loop.run_in_executor(...)` (line 101); Event.wait() on a set event  *)
(*     returns at once.                                                    *)
(* Each action below is one such run-to-suspension stretch of code.  The   *)
(* bodies of both `async with self.queue_lock` blocks hold no await, so    *)
(* the lock is free again at every suspension point.                       *)
(*                                                                         *)
(* Time is the loop's monotonic clock in discrete ticks (now).             *)
(***************************************************************************)
EXTENDS Integers, Sequences, FiniteSets, Bags, TLC

(* ---- bounds of the model ---- *)
MaxTasks == 3        \* number of process_input calls explored
MaxTime  == 1        \* last tick at which process_input is called

(* The constructor arguments explored: (max_queue_size, max_batch_size,    *)
(* max_wait).  With max_batch_size = 1 every enqueue sets the event and no *)
(* timer is ever armed, so max_wait plays no part there.  <<2, 3, 1>> lets  *)
(* two enqueues in a row each arm a timer (line 52); <<3, 2, 1>> lets a    *)
(* slice leave fewer than max_batch_size tasks behind.                     *)
Configs == { <<2, 1, 0>>, <<1, 2, 0>>, <<1, 2, 1>>, <<2, 2, 1>>, <<3, 2, 1>>, <<2, 3, 1>> }

(* The payload of the id-th process_input call.  The scheduler never looks *)
(* into a payload; distinct payloads tell the calls apart.                 *)
Input(id) == id

VARIABLES
  max_queue_size,         \* self.max_queue_size
  max_batch_size,         \* self.max_batch_size
  max_wait,               \* self.max_wait, in ticks
  queue,                  \* self.queue: the queued tasks (task ids), oldest first
  queue_lock,             \* self.queue_lock: "None" before model_runner starts, then "free"
                          \* or "held" at a suspension point
  needs_processing,       \* self.needs_processing: "None", then "clear" or "set"
  needs_processing_timer, \* self.needs_processing_timer: the handle the runner still references
  scheduled,              \* the loop's outstanding timer handles: a bag of deadlines
  now,                    \* loop.time()
  tasks,                  \* our_task of every process_input call, by call number
  caller,                 \* where every process_input call stands
  pc,                     \* where model_runner stands: "init", "waiting", "running"
  to_process,             \* model_runner's to_process while the executor runs
  batches,                \* history: every slice taken at line 96, with the Worker's answer
  fanouts,                \* history: per task, how often lines 105-106 ran for it
  burst,                  \* history: length of the current run of enqueues (see ProcessInput)
  rank,                   \* history: per task, its place in the burst it was enqueued in
  solo                    \* history: per task, whether it was enqueued into an empty queue
                          \*          while no Worker call was in flight

vars == << max_queue_size, max_batch_size, max_wait, queue, queue_lock,
           needs_processing, needs_processing_timer, scheduled, now, tasks,
           caller, pc, to_process, batches, fanouts, burst, rank, solo >>

Min(a, b) == IF a <= b THEN a ELSE b
Max(a, b) == IF a >= b THEN a ELSE b

(* ---- values ---- *)
NoOutput == [kind |-> "unset", text |-> 0, idx |-> 0]    \* the key "output" is absent
WorkerError == [kind |-> "exc", text |-> 0, idx |-> 0]   \* the exception object e of line 72
NoTimer == [state |-> "none", when |-> 0]                \* needs_processing_timer is None

(* The Worker, self.service.parse(batch), when it succeeds: one document   *)
(* per input, in order; the document echoes its input, tagged by index.    *)
Parse(batch) == [i \in 1..Len(batch) |-> [kind |-> "doc", text |-> batch[i], idx |-> i]]

(* run_model's except branch, line 74: [e for _ in batch] *)
RunModelFirstOnly(batch) == IF Len(batch) = 0 THEN << >> ELSE << WorkerError >>
RunModelExcept(batch) == [i \in 1..Len(batch) |-> WorkerError]

(* What run_model(batch) can return: the Worker's result, or the list of exceptions *)
RunModel(batch) == { [raised |-> FALSE, result |-> Parse(batch)],
                     [raised |-> TRUE,  result |-> RunModelExcept(batch)] }

(* line 60: len(self.queue) >= self.max_queue_size *)
QueueFullOffByOne(q) == Len(q) > max_queue_size
QueueFullBatchSize(q) == Len(q) >= max_batch_size
QueueFull(q) == Len(q) >= max_queue_size

(* line 47: len(self.queue) >= self.max_batch_size *)
BatchReadyOffByOne(q) == Len(q) > max_batch_size
BatchReady(q) == Len(q) >= max_batch_size

(* line 96: self.queue[:self.max_batch_size] *)
SliceWholeQueue(q) == q
SliceNewest(q) == SubSeq(q, Len(q) - Min(max_batch_size, Len(q)) + 1, Len(q))
Slice(q) == SubSeq(q, 1, Min(max_batch_size, Len(q)))

(* line 97: del self.queue[:len(to_process)] *)
KeepQueue(q, n) == q
DelOneLess(q, n) == SubSeq(q, Max(n - 1, 0) + 1, Len(q))
DelPrefix(q, n) == SubSeq(q, n + 1, Len(q))

(* line 104: zip(to_process, result): the pairs (position in to_process, position in result) *)
ZipReversed(n, m) == { <<i, Min(n, m) + 1 - i>> : i \in 1..Min(n, m) }
Zip(n, m) == { <<i, i>> : i \in 1..Min(n, m) }

(* schedule_processing_if_needed, lines 46-52, on queue q of the tasks ts,   *)
(* with the event np, the referenced handle npt and the loop's outstanding   *)
(* handles sch.                                                              *)
(* call_at returns a new handle; the handle referenced before is not         *)
(* cancelled and stays with the loop.                                        *)
ScheduleLate(ts, q, np, npt, sch) ==
  IF Len(q) >= max_batch_size
    THEN [np |-> "set", npt |-> npt, sch |-> sch]
    ELSE IF Len(q) > 0
      THEN [np  |-> np,
            npt |-> [state |-> "armed", when |-> ts[q[1]].time + max_wait + 1],
            sch |-> sch (+) SetToBag({ts[q[1]].time + max_wait + 1})]
      ELSE [np |-> np, npt |-> npt, sch |-> sch]
ScheduleAtNow(ts, q, np, npt, sch) ==
  IF Len(q) >= max_batch_size
    THEN [np |-> "set", npt |-> npt, sch |-> sch]
    ELSE IF Len(q) > 0
      THEN [np  |-> np,
            npt |-> [state |-> "armed", when |-> now + max_wait],
            sch |-> sch (+) SetToBag({now + max_wait})]
      ELSE [np |-> np, npt |-> npt, sch |-> sch]
ScheduleWithoutTimer(ts, q, np, npt, sch) ==
  IF Len(q) >= max_batch_size
    THEN [np |-> "set", npt |-> npt, sch |-> sch]
    ELSE [np |-> np, npt |-> npt, sch |-> sch]
ScheduleProcessingIfNeeded(ts, q, np, npt, sch) ==
  IF BatchReady(q)
    THEN [np |-> "set", npt |-> npt, sch |-> sch]
    ELSE IF Len(q) > 0
      THEN [np  |-> np,
            npt |-> [state |-> "armed", when |-> ts[q[1]].time + max_wait],
            sch |-> sch (+) SetToBag({ts[q[1]].time + max_wait})]
      ELSE [np |-> np, npt |-> npt, sch |-> sch]

Init ==
  /\ \E c \in Configs : /\ max_queue_size = c[1]
                        /\ max_batch_size = c[2]
                        /\ max_wait = c[3]
  /\ queue = << >>
  /\ queue_lock = "None"
  /\ needs_processing = "None"
  /\ needs_processing_timer = NoTimer
  /\ scheduled = EmptyBag
  /\ now = 0
  /\ tasks = << >>
  /\ caller = << >>
  /\ pc = "init"
  /\ to_process = << >>
  /\ batches = << >>
  /\ fanouts = << >>
  /\ burst = 0
  /\ rank = << >>
  /\ solo = << >>

(* The dispatcher is idle: suspended at line 83 with the event clear *)
Idle == pc = "waiting" /\ needs_processing = "clear"

(* process_input(input), lines 54-66, up to the await of line 66; a call *)
(* that finds the lock held suspends at line 59 until it is released     *)
ProcessInput ==
  /\ Len(tasks) < MaxTasks
  /\ now <= MaxTime
  /\ queue_lock # "held"
  /\ LET id == Len(tasks) + 1
         our_task == [input |-> Input(id), time |-> now, output |-> NoOutput, done_event |-> FALSE]
     IN
     /\ tasks' = Append(tasks, our_task)
     /\ fanouts' = Append(fanouts, 0)
     /\ IF queue_lock = "None"
          THEN \* `async with None` raises before anything is touched
               /\ caller' = Append(caller, [state |-> "raised", code |-> 500, value |-> NoOutput])
               /\ rank' = Append(rank, 0)
               /\ solo' = Append(solo, FALSE)
               /\ UNCHANGED << queue, needs_processing, needs_processing_timer, scheduled, burst >>
          ELSE IF QueueFull(queue)
            THEN \* HandlingError("I'm too busy", code=503)
                 /\ caller' = Append(caller, [state |-> "raised", code |-> 503, value |-> NoOutput])
                 /\ rank' = Append(rank, 0)
                 /\ solo' = Append(solo, FALSE)
                 /\ UNCHANGED << queue, needs_processing, needs_processing_timer, scheduled, burst >>
            ELSE LET q == Append(queue, id)
                     s == ScheduleProcessingIfNeeded(Append(tasks, our_task), q, needs_processing,
                                                     needs_processing_timer, scheduled)
                     \* a burst starts with an enqueue into an empty queue while the
                     \* dispatcher is idle, and goes on until a timer fires or a batch is sliced
                     b == IF Len(queue) = 0 /\ Idle THEN 1
                          ELSE IF burst > 0 THEN burst + 1 ELSE 0
                 IN /\ queue' = q
                    /\ needs_processing' = s.np
                    /\ needs_processing_timer' = s.npt
                    /\ scheduled' = s.sch
                    /\ caller' = Append(caller, [state |-> "waiting", code |-> 0, value |-> NoOutput])
                    /\ burst' = b
                    /\ rank' = Append(rank, b)
                    /\ solo' = Append(solo, Len(queue) = 0 /\ pc # "running")
  /\ UNCHANGED << max_queue_size, max_batch_size, max_wait, queue_lock, now, pc,
                  to_process, batches >>

(* process_input, lines 66-67: the caller resumes once its done_event is   *)
(* set.  Event.set() hands each waiter to the loop's ready queue, which is *)
(* first-in first-out, and lines 104-106 set the events oldest task first: *)
(* the callers resume in that order.                                       *)
Resume(id) ==
  /\ id \in DOMAIN caller
  /\ caller[id].state = "waiting"
  /\ tasks[id].done_event
  /\ \A j \in 1..(id - 1) : ~(caller[j].state = "waiting" /\ tasks[j].done_event)
  /\ caller' = [caller EXCEPT ![id] =
                  IF tasks[id].output = NoOutput
                    THEN [state |-> "raised", code |-> 500, value |-> NoOutput]  \* KeyError
                    ELSE [state |-> "returned", code |-> 0, value |-> tasks[id].output]]
  /\ UNCHANGED << max_queue_size, max_batch_size, max_wait, queue, queue_lock,
                  needs_processing, needs_processing_timer, scheduled, now, tasks,
                  pc, to_process, batches, fanouts, burst, rank, solo >>

(* lines 89-99: the `async with self.queue_lock` block ends at line 98, so *)
(* the lock is free again when the executor is awaited at line 101         *)
LockHeldAtExecutor == "held"
LockAtExecutor == "free"

(* line 98: the decide step on what lines 96-97 left in the queue; the    *)
(* event was cleared at line 84 and the referenced handle dropped at 87   *)
NoDecideAfterSlice(ts, rest, sch) == [np |-> "clear", npt |-> NoTimer, sch |-> sch]
DecideAfterSlice(ts, rest, sch) == ScheduleProcessingIfNeeded(ts, rest, "clear", NoTimer, sch)

(* model_runner, lines 84-103, from the wake to the await of the executor, *)
(* appending the slice to the history log.                                 *)
Dispatch(log) ==
  LET \* lines 85-87: cancel the referenced handle; cancelling a fired one changes nothing
      sch0 == IF needs_processing_timer.state = "armed"
                THEN scheduled (-) SetToBag({needs_processing_timer.when})
                ELSE scheduled
      batch == Slice(queue)
      rest == DelPrefix(queue, Len(batch))
      s == DecideAfterSlice(tasks, rest, sch0)
  IN /\ to_process' = batch
     /\ queue_lock' = LockAtExecutor
     /\ queue' = rest
     /\ needs_processing' = s.np
     /\ needs_processing_timer' = s.npt
     /\ scheduled' = s.sch
     /\ pc' = "running"
     /\ batches' = Append(log, [tasks |-> batch, status |-> "running", result |-> << >>])
     /\ burst' = 0

(* model_runner, lines 77-83: create the lock and the event, wait for the event *)
RunnerStart ==
  /\ pc = "init"
  /\ queue_lock' = "free"
  /\ needs_processing' = "clear"
  /\ pc' = "waiting"
  /\ UNCHANGED << max_queue_size, max_batch_size, max_wait, queue, needs_processing_timer,
                  scheduled, now, tasks, caller, to_process, batches, fanouts, burst, rank, solo >>

(* model_runner is suspended at line 83: it gets there only after the    *)
(* awaited executor call of line 101 has returned                        *)
AtWaitOrExecutor == pc \in {"waiting", "running"}
AtWait == pc = "waiting"

(* model_runner resumes from line 83 because the event was set *)
Wake ==
  /\ AtWait
  /\ needs_processing = "set"
  /\ Dispatch(batches)
  /\ UNCHANGED << max_queue_size, max_batch_size, max_wait, now, tasks,
                  caller, fanouts, rank, solo >>

(* line 100: batch = [t["input"] for t in to_process] *)
Batch == [i \in 1..Len(to_process) |-> tasks[to_process[i]].input]

(* The executor's future resolves with run_model's return value r; lines    *)
(* 104-107 assign the outputs; back at line 83 the loop goes on at once if  *)
(* the event is set, and suspends otherwise.                                *)
ExecutorReturn(r) ==
  /\ pc = "running"
  /\ LET pairs == Zip(Len(to_process), Len(r.result))
         hits(id) == { p \in pairs : to_process[p[1]] = id }
         last(id) == CHOOSE p \in hits(id) : \A o \in hits(id) : o[1] <= p[1]
         log == [batches EXCEPT ![Len(batches)] =
                   [tasks |-> to_process,
                    status |-> IF r.raised THEN "raised" ELSE "returned",
                    result |-> r.result]]
     IN
     /\ tasks' = [id \in DOMAIN tasks |->
                    IF hits(id) = {} THEN tasks[id]
                    ELSE [tasks[id] EXCEPT !.output = r.result[last(id)[2]],
                                           !.done_event = TRUE]]
     /\ fanouts' = [id \in DOMAIN fanouts |-> fanouts[id] + Cardinality(hits(id))]
     /\ IF needs_processing = "set"
          THEN Dispatch(log)
          ELSE /\ pc' = "waiting"
               /\ to_process' = << >>
               /\ batches' = log
               /\ queue_lock' = "free"
               /\ UNCHANGED << queue, needs_processing, needs_processing_timer,
                               scheduled, burst >>
  /\ UNCHANGED << max_queue_size, max_batch_size, max_wait, now, caller, rank, solo >>

(* A timer handle armed at line 52 comes due and the loop runs its callback, *)
(* self.needs_processing.set.  referenced: it is the handle the runner still *)
(* references; otherwise one that line 52 has overwritten.                   *)
TimerFire(when, referenced) ==
  /\ BagIn(when, scheduled)
  /\ when <= now
  /\ IF referenced
       THEN /\ needs_processing_timer = [state |-> "armed", when |-> when]
            /\ needs_processing_timer' = [state |-> "fired", when |-> when]
       ELSE /\ CopiesIn(when, scheduled) >
                 (IF needs_processing_timer = [state |-> "armed", when |-> when] THEN 1 ELSE 0)
            /\ UNCHANGED needs_processing_timer
  /\ scheduled' = scheduled (-) SetToBag({when})
  /\ needs_processing' = "set"
  /\ burst' = 0
  /\ UNCHANGED << max_queue_size, max_batch_size, max_wait, queue, queue_lock, now,
                  tasks, caller, pc, to_process, batches, fanouts, rank, solo >>

(* The clock advances *)
Tick ==
  /\ now < MaxTime + max_wait
  /\ now' = now + 1
  /\ UNCHANGED << max_queue_size, max_batch_size, max_wait, queue, queue_lock,
                  needs_processing, needs_processing_timer, scheduled, tasks, caller,
                  pc, to_process, batches, fanouts, burst, rank, solo >>

Next ==
  \/ ProcessInput
  \/ \E id \in 1..MaxTasks : Resume(id)
  \/ RunnerStart
  \/ Wake
  \/ \E r \in RunModel(Batch) : ExecutorReturn(r)
  \/ \E when \in 0..(MaxTime + max_wait), referenced \in BOOLEAN : TimerFire(when, referenced)
  \/ Tick

Spec == Init /\ [][Next]_vars

(* Discrete time with prompt steps: the clock does not advance while a    *)
(* timer is due or while the woken runner has not yet taken its step.     *)
UrgentTick ==
  /\ \A when \in BagToSet(scheduled) : when > now
  /\ ~(pc = "waiting" /\ needs_processing = "set")
  /\ Tick

UrgentNext ==
  \/ ProcessInput
  \/ \E id \in 1..MaxTasks : Resume(id)
  \/ RunnerStart
  \/ Wake
  \/ \E r \in RunModel(Batch) : ExecutorReturn(r)
  \/ \E when \in 0..(MaxTime + max_wait), referenced \in BOOLEAN : TimerFire(when, referenced)
  \/ UrgentTick

UrgentSpec == Init /\ [][UrgentNext]_vars

(* A Worker that breaks its contract: it returns one output too few *)
ShortResults(batch) ==
  IF Len(batch) = 0 THEN {}
  ELSE { [raised |-> FALSE, result |-> SubSeq(Parse(batch), 1, Len(batch) - 1)] }

ShortNext ==
  \/ Next
  \/ \E r \in ShortResults(Batch) : ExecutorReturn(r)

ShortSpec == Init /\ [][ShortNext]_vars

(* The event loop runs every callback that is ready (the runner's first    *)
(* step, its wake, the executor's future) and every timer that is due; the *)
(* clock advances; the Worker returns or fails.                            *)
LiveInit == Init /\ max_wait = 1

LiveSpec ==
  /\ LiveInit /\ [][Next]_vars
  /\ WF_vars(RunnerStart)
  /\ WF_vars(Wake)
  /\ WF_vars(\E r \in RunModel(Batch) : ExecutorReturn(r))
  /\ WF_vars(\E when \in 0..(MaxTime + max_wait), referenced \in BOOLEAN :
               TimerFire(when, referenced))
  /\ WF_vars(Tick)

(* ---- the history, read ---- *)
RECURSIVE Flatten(_)
Flatten(log) == IF Len(log) = 0 THEN << >> ELSE Flatten(SubSeq(log, 1, Len(log) - 1)) \o log[Len(log)].tasks

(* every task that has left the queue, in the order of leaving, then the queue *)
Dispatched == Flatten(batches)
Lifeline == Dispatched \o queue

Occurrences(id, seq) == Cardinality({ i \in DOMAIN seq : seq[i] = id })

(* the call was admitted: it got past line 61 *)
Accepted(id) == id \in DOMAIN caller /\ caller[id].state \in {"waiting", "returned"}
Rejected(id) == id \in DOMAIN caller /\ caller[id].state = "raised" /\ caller[id].code = 503

Completed(id) == tasks[id].done_event /\ tasks[id].output # NoOutput

(* ---- C1 ---- *)
(* C1: in every reachable state the request queue holds at most            *)
(* max_queue_size tasks.                                                   *)
C1_QueueBounded == Len(queue) <= max_queue_size

(* a submission has met the full queue while the Worker was running *)
C1_Witness ==
  /\ Len(queue) = max_queue_size
  /\ pc = "running"
  /\ \E id \in DOMAIN caller : Rejected(id)

(* ---- C2 ---- *)
(* C2: every accepted task is in the queue or in exactly one dispatched    *)
(* batch, never in both, never twice: it leaves the queue once, enters one *)
(* batch and does not come back to the queue.                              *)
C2_ExactlyOnce ==
  \A id \in DOMAIN tasks :
    /\ Occurrences(id, Lifeline) <= 1
    /\ Accepted(id) => Occurrences(id, Lifeline) = 1

(* two batches have been sliced and the queue holds a third task *)
C2_Witness ==
  /\ Len(batches) >= 2
  /\ \A n \in 1..2 : Len(batches[n].tasks) >= 1
  /\ Len(queue) >= 1

(* ---- C3 ---- *)
(* C3: every accepted task eventually has its output assigned and its      *)
(* done_event set.                                                         *)
C3_Liveness ==
  \A id \in 1..MaxTasks :
    (Accepted(id)) ~> (id \in DOMAIN tasks /\ Completed(id))

(* a task that only the deadline timer could dispatch has completed *)
C3_Witness ==
  \E n \in DOMAIN batches :
    /\ Len(batches[n].tasks) = 1
    /\ max_batch_size = 2
    /\ Completed(batches[n].tasks[1])

(* ---- C4 ---- *)
(* C4: lines 105-106 run at most once for a task: its output is assigned   *)
(* once and its done_event is set once, whether the Worker succeeded or    *)
(* failed; a task is done exactly when they have run for it.               *)
C4_SignalOnce ==
  \A id \in DOMAIN tasks :
    /\ fanouts[id] <= 1
    /\ tasks[id].done_event <=> fanouts[id] = 1
    /\ tasks[id].output # NoOutput <=> fanouts[id] = 1

(* one task completed by a success and one by a failure *)
C4_Witness ==
  \E i, j \in DOMAIN tasks :
    /\ tasks[i].output.kind = "doc" /\ fanouts[i] = 1
    /\ tasks[j].output.kind = "exc" /\ fanouts[j] = 1

(* ---- C5 ---- *)
(* C5: when the Worker raised for a batch, every task of the batch has the *)
(* same exception as its output and is done, and the task is neither back  *)
(* in the queue nor in another batch.                                      *)
C5_FailTogether ==
  \A n \in DOMAIN batches :
    batches[n].status = "raised" =>
      \A i \in DOMAIN batches[n].tasks :
        LET id == batches[n].tasks[i] IN
        /\ tasks[id].output = WorkerError
        /\ tasks[id].done_event
        /\ Occurrences(id, Lifeline) = 1

(* the Worker has raised for a batch of two *)
C5_Witness ==
  \E n \in DOMAIN batches :
    /\ batches[n].status = "raised"
    /\ Len(batches[n].tasks) = 2

(* ---- C6 ---- *)
(* C6: a process_input call made (once the runner has started) while the   *)
(* queue holds max_queue_size tasks raises HandlingError 503 and leaves    *)
(* the queue, the event, the referenced timer and the loop's timers as     *)
(* they were, and its caller does not wait; a call made while the queue    *)
(* holds fewer is enqueued and waits.                                      *)
C6_TooBusy ==
  [][ (Len(tasks') = Len(tasks) + 1 /\ queue_lock # "None") =>
        LET id == Len(tasks) + 1 IN
        /\ Len(queue) = max_queue_size =>
             /\ caller'[id] = [state |-> "raised", code |-> 503, value |-> NoOutput]
             /\ UNCHANGED << queue, needs_processing, needs_processing_timer, scheduled >>
        /\ Len(queue) < max_queue_size =>
             /\ caller'[id].state = "waiting"
             /\ queue' = Append(queue, id)
    ]_vars

(* a call was rejected, a dispatch made room, a later call is queued *)
C6_Witness ==
  \E i, j \in DOMAIN caller :
    /\ i < j
    /\ Rejected(i)
    /\ Occurrences(j, queue) = 1
    /\ Len(batches) >= 1

(* ---- C7 ---- *)
(* C7: the tasks that have left the queue, in the order they left, followed *)
(* by the queue, are the accepted tasks in the order of their arrival: each *)
(* batch was the head of the queue, and no task overtakes an older one.     *)
C7_Fifo ==
  /\ \A i, j \in DOMAIN Lifeline :
       i < j => /\ Lifeline[i] < Lifeline[j]
                /\ tasks[Lifeline[i]].time <= tasks[Lifeline[j]].time
  /\ \A id \in DOMAIN tasks : Accepted(id) => Occurrences(id, Lifeline) >= 1

(* a batch of two, sliced while max_batch_size held the third task back *)
C7_Witness ==
  /\ Len(batches) >= 2
  /\ Len(batches[1].tasks) = 2
  /\ Len(batches[2].tasks) = 1

(* ---- C8 ---- *)
(* C8: after a successful Worker call the i-th task of the batch has the   *)
(* i-th output; a caller that has returned got its own task's output,      *)
(* which for a document is the document of its own input, and its task's   *)
(* output had been assigned.                                               *)
C8_OutputOrder ==
  /\ \A n \in DOMAIN batches :
       batches[n].status = "returned" =>
         /\ Len(batches[n].result) = Len(batches[n].tasks)
         /\ \A i \in DOMAIN batches[n].tasks :
              /\ tasks[batches[n].tasks[i]].output = batches[n].result[i]
              /\ batches[n].result[i].idx = i
  /\ \A id \in DOMAIN caller :
       /\ caller[id].state = "returned" =>
            /\ caller[id].value = tasks[id].output
            /\ caller[id].value # NoOutput
            /\ caller[id].value.kind = "doc" => caller[id].value.text = Input(id)
       /\ (caller[id].state = "raised") => caller[id].code \in {500, 503} /\ fanouts[id] = 0

(* both callers of a successful batch of two have returned *)
C8_Witness ==
  \E n \in DOMAIN batches :
    /\ batches[n].status = "returned"
    /\ Len(batches[n].tasks) = 2
    /\ \A i \in 1..2 : caller[batches[n].tasks[i]].state = "returned"

(* ---- C9 ---- *)
(* C9: every slice taken at line 96 holds at most max_batch_size tasks.    *)
C9_BatchSize ==
  /\ Len(to_process) <= max_batch_size
  /\ \A n \in DOMAIN batches : Len(batches[n].tasks) <= max_batch_size

(* a slice of max_batch_size tasks taken from a longer queue: the task now  *)
(* at the head of the queue was enqueued behind the tasks of the batch      *)
C9_Witness ==
  /\ pc = "running"
  /\ Len(to_process) = max_batch_size
  /\ Len(queue) >= 1
  /\ rank[to_process[1]] = 1
  /\ rank[queue[1]] = max_batch_size + 1

(* ---- C10 ---- *)
(* C10: when max_batch_size tasks have been enqueued in a row, the first   *)
(* into an empty queue with the dispatcher idle and no timer firing in     *)
(* between, the enqueue of the last of them has set the event (it stays    *)
(* set until the runner slices), and these tasks make up one batch.        *)
C10_FullBatch ==
  \A k \in DOMAIN rank :
    rank[k] = max_batch_size =>
      LET members == { i \in DOMAIN rank : k - max_batch_size < i /\ i <= k } IN
      /\ Occurrences(k, queue) = 1 => needs_processing = "set"
      /\ \A i \in members : rank[i] = i - (k - max_batch_size)
      /\ \A n \in DOMAIN batches :
           (\E i \in DOMAIN batches[n].tasks : batches[n].tasks[i] \in members) =>
             batches[n].tasks = [i \in 1..max_batch_size |-> k - max_batch_size + i]

(* two tasks enqueued at tick 0 with max_wait = 1, so before any timer was *)
(* due, have been dispatched at tick 0 as one batch                        *)
C10_Witness ==
  /\ max_batch_size = 2
  /\ max_wait = 1
  /\ now = 0
  /\ \E k \in DOMAIN rank :
       /\ rank[k] = 2
       /\ \E n \in DOMAIN batches : batches[n].tasks = << k - 1, k >>

(* ---- the slice step, read from the history ---- *)
(* this step slices a batch (lines 96-97) *)
Slicing == Len(batches') = Len(batches) + 1
(* the batch this step slices *)
Sliced == batches'[Len(batches')].tasks
(* the deadline of a queued task: its enqueue time plus max_wait *)
Deadline(id) == tasks[id].time + max_wait

(* ---- C11 ---- *)
(* C11: with prompt steps, a task enqueued into an empty queue while no    *)
(* Worker call is in flight does not stay queued past its enqueue time     *)
(* plus max_wait: the clock never exceeds that deadline while the task is  *)
(* in the queue, so the slice that takes it happens no later.              *)
C11_Deadline ==
  \A i \in DOMAIN queue : solo[queue[i]] => now <= Deadline(queue[i])

(* such a task has just been sliced by its deadline timer, at its deadline *)
C11_Witness ==
  /\ max_wait = 1
  /\ pc = "running"
  /\ Len(to_process) = 1
  /\ solo[to_process[1]]
  /\ now = Deadline(to_process[1])
  /\ needs_processing_timer = NoTimer
  /\ batches[Len(batches)].status = "running"

(* ---- C12 ---- *)
(* C12: when a batch of fewer than max_batch_size tasks is sliced, its     *)
(* oldest task has been queued for at least max_wait.                      *)
C12_NotBeforeDeadline ==
  [][ (Slicing /\ 0 < Len(Sliced) /\ Len(Sliced) < max_batch_size) =>
        now >= Deadline(Sliced[1]) ]_vars

(* ---- C13 ---- *)
(* C13: at most one Worker call is in flight: the batches whose Worker     *)
(* call has not returned number one while the runner awaits the executor   *)
(* (that batch being to_process) and none otherwise, also when the event   *)
(* is set again during the call.                                           *)
C13_OneInFlight ==
  LET inflight == { n \in DOMAIN batches : batches[n].status = "running" } IN
  IF pc = "running"
    THEN /\ inflight = { Len(batches) }
         /\ batches[Len(batches)].tasks = to_process
    ELSE inflight = {}

(* the event is set again and a full batch waits while the call is in flight *)
C13_Witness ==
  /\ pc = "running"
  /\ Len(to_process) >= 1
  /\ needs_processing = "set"
  /\ Len(queue) >= max_batch_size
  /\ Len(batches) >= 2

(* ---- C14 ---- *)
(* C14: the queue lock is free whenever the runner awaits the executor,    *)
(* and a process_input call made during the Worker call is decided in its  *)
(* own step: enqueued when the queue holds fewer than max_queue_size tasks *)
(* (to_process not counted), rejected with 503 otherwise.                  *)
C14_NoLockDuringWorker ==
  /\ [](pc = "running" => queue_lock = "free")
  /\ [][ (pc = "running" /\ Len(tasks') = Len(tasks) + 1) =>
           LET id == Len(tasks) + 1 IN
           IF Len(queue) < max_queue_size
             THEN queue' = Append(queue, id) /\ caller'[id].state = "waiting"
             ELSE queue' = queue /\ caller'[id].code = 503 ]_vars

(* during one Worker call a call was enqueued, filling the queue, and a    *)
(* later one was rejected, the batch in flight not counting                *)
C14_Witness ==
  /\ pc = "running"
  /\ Len(to_process) >= 1
  /\ Len(to_process) < max_batch_size
  /\ Len(queue) = max_queue_size
  /\ \E i \in DOMAIN caller : Rejected(i) /\ i > queue[Len(queue)]

(* ---- C15 ---- *)
(* C15: at most one timer handle is outstanding, and its deadline is that  *)
(* of the oldest queued task.                                              *)
C15_OneTimer ==
  /\ BagCardinality(scheduled) <= 1
  /\ \A when \in BagToSet(scheduled) : Len(queue) > 0 /\ when = Deadline(queue[1])

(* ---- C16 ---- *)
(* C16: when the queue is empty no timer handle is outstanding.            *)
C16_NoTimerWhenEmpty == Len(queue) = 0 => scheduled = EmptyBag

(* ---- C17 ---- *)
(* C17: once the Worker call of a batch has returned, every task of the    *)
(* batch is completed, also when the Worker returned too few outputs.      *)
C17_NeverHangs ==
  \A n \in DOMAIN batches :
    batches[n].status # "running" =>
      \A i \in DOMAIN batches[n].tasks : Completed(batches[n].tasks[i])

(* ---- C18 ---- *)
(* C18: the step that slices a batch also runs the decide step on what is  *)
(* left: with max_batch_size tasks or more left the event is set; with     *)
(* fewer, but some, the referenced timer is armed at the deadline of the   *)
(* new head of the queue and is outstanding.                               *)
C18_DecideAfterSlice ==
  [][ Slicing =>
        /\ Len(queue') >= max_batch_size => needs_processing' = "set"
        /\ (0 < Len(queue') /\ Len(queue') < max_batch_size) =>
             /\ needs_processing_timer' =
                  [state |-> "armed", when |-> Deadline(queue'[1])]
             /\ BagIn(Deadline(queue'[1]), scheduled') ]_vars

(* a slice of two left a younger third task behind, its timer armed at its *)
(* own deadline, later than that of the tasks sliced                       *)
C18_Witness ==
  /\ pc = "running"
  /\ Len(to_process) = max_batch_size
  /\ Len(queue) = 1
  /\ rank[queue[1]] = max_batch_size + 1
  /\ Deadline(queue[1]) > Deadline(to_process[1])
  /\ needs_processing_timer = [state |-> "armed", when |-> Deadline(queue[1])]

(* ---- C19 ---- *)
(* C19: every batch handed to the Worker holds at least one task.          *)
C19_NonEmptyBatch == \A n \in DOMAIN batches : Len(batches[n].tasks) >= 1

(* ---- C20 ---- *)
(* C20: once the runner has started, a non-empty queue always has a wake-up *)
(* pending: the event is set, or a timer handle is outstanding whose        *)
(* deadline is at most that of the oldest queued task; and a queue of       *)
(* max_batch_size tasks or more has the event set.                          *)
C20_NoLostWakeup ==
  (pc \in {"waiting", "running"} /\ Len(queue) > 0) =>
    /\ \/ needs_processing = "set"
       \/ \E when \in BagToSet(scheduled) : when <= Deadline(queue[1])
    /\ Len(queue) >= max_batch_size => needs_processing = "set"

(* a slice has left a task behind whose only wake-up is the re-armed timer *)
C20_Witness ==
  /\ pc = "running"
  /\ Len(queue) = 1
  /\ needs_processing = "clear"
  /\ tasks[queue[1]].time < now
  /\ rank[queue[1]] = max_batch_size + 1
  /\ scheduled = SetToBag({Deadline(queue[1])})
====
